---- MODULE Spec2Model ----
\* A state-machine model of LoginScriptPlugin.c: AuthorizationPluginCreate,
\* the mechanism entry points (MechanismCreate, MechanismInvoke,
\* MechanismDeactivate, MechanismDestroy), ExecuteScript with its forked child,
\* and VerifyScript's recursive ascent, alone and on two threads at once.
\*
\* A path is a sequence of tokens: "/" or a name (a non-empty run of characters
\* other than '/').  A 32-bit word (uid_t, gid_t, int) is held as the signed
\* value of its bit pattern, so (uid_t)-2 is -2.
EXTENDS Integers, Sequences, FiniteSets, TLC

VARIABLES
    mech,        \* the MechanismRecord on the heap, or NoMech
    mechId,      \* the mechanismId of the last MechanismCreate call, or "(none)"
    outMechanism,\* the host's *outMechanism slot: "unset", "NULL", "mechanism", "freed"
    createErr,   \* the status the last MechanismCreate returned
    allocs,      \* number of MechanismRecords currently allocated
    pc,          \* where the invoking (parent) process is
    uid, gid,    \* MechanismInvoke: the identity the script is to run as
    scriptPath,  \* MechanismInvoke: the path handed to ExecuteScript
    result,      \* the AuthorizationResult of this invocation
    childStatus, \* ExecuteScript: the int waitpid fills in
    waitOk,      \* whether waitpid returned childPid in this invocation (history)
    child,       \* the forked child process
    outcome,     \* how the child of this invocation ended (history)
    sys,         \* system calls and callbacks of this invocation, in order (history)
    reported,    \* values handed to SetResult in this invocation, in order (history)
    invokeRet,   \* the OSStatus the last MechanismInvoke returned
    vPath0,      \* VerifyScript: the path of the outermost call (history)
    path,        \* VerifyScript: the path argument of the current frame
    vResult,     \* VerifyScript: "idle", "pending", "true" or "false"
    rootDev,     \* {st_dev} once lstat("/") has shown it during this call, else {}
    seen,        \* lstat results this call has read, by path (history)
    cred,        \* the user and group identity of the invoking process
    plugin,      \* the PluginRecord on the heap, or NoPlugin
    outPlugin,   \* the host's *outPlugin slot: "unset" or "plugin"
    outPluginInterface, \* the host's *outPluginInterface slot: "unset" or "gPluginInterface"
    pluginErr,   \* the status the last AuthorizationPluginCreate returned
    pluginPc,    \* "unloaded", "returned", or "aborted" (assert failed: SIGABRT)
    callbacks,   \* the AuthorizationCallbacks table the host passed, or NoCallbacks
    thread,      \* two threads in VerifyScript at once: each thread's frame
    dirnameBuf,  \* the static buffer dirname(3) returns a pointer to
    fsys         \* the file system the two threads read: lstat result by path

vars == <<mech, mechId, outMechanism, createErr, allocs, pc, uid, gid,
          scriptPath, result, childStatus, waitOk, child, outcome, sys,
          reported, invokeRet, vPath0, path, vResult, rootDev, seen,
          cred, plugin, outPlugin, outPluginInterface, pluginErr, pluginPc,
          callbacks, thread, dirnameBuf, fsys>>

hostVars == <<mech, mechId, outMechanism, createErr, allocs, pc, uid, gid,
              scriptPath, result, childStatus, waitOk, child, outcome, sys,
              reported, invokeRet>>

mechVars == <<mech, mechId, outMechanism, createErr, allocs>>

verifyVars == <<vPath0, path, vResult, rootDev, seen>>

pluginVars == <<plugin, outPlugin, outPluginInterface, pluginErr, pluginPc,
                callbacks>>

threadVars == <<thread, dirnameBuf, fsys>>

----------------------------------------------------------------------------
\* Bounds of the model.

\* Longest path, in tokens, handed directly to VerifyScript.
MaxPathLen == 4
\* The descriptor limit sysconf(_SC_OPEN_MAX) reports to the child.
MaxFd == 5

----------------------------------------------------------------------------
\* Paths and dirname(3).

Root == <<"/">>
Dot == <<".">>

kLoginScriptDir ==
    <<"/", "Library", "/", "Application Support", "/", "LoginScriptPlugin">>

IsAbsolute(p) == Len(p) > 0 /\ p[1] = "/"

\* Every token is a slash: the string names the root directory itself.
IsRootPath(p) == Len(p) > 0 /\ \A i \in 1..Len(p) : p[i] = "/"

RECURSIVE SkipSlashes(_, _)
SkipSlashes(p, i) == IF i > 1 /\ p[i] = "/" THEN SkipSlashes(p, i - 1) ELSE i

RECURSIVE SkipName(_, _)
SkipName(p, i) == IF i > 1 /\ p[i] # "/" THEN SkipName(p, i - 1) ELSE i

\* BSD dirname: strip trailing slashes, strip the last name, strip the slashes
\* before it; "." when nothing is left and the string did not start at the root.
dirname(p) ==
    IF p = <<>> THEN Dot
    ELSE LET e1 == SkipSlashes(p, Len(p))
             e2 == SkipName(p, e1)
         IN  IF e2 = 1
             THEN (IF p[1] = "/" THEN Root ELSE Dot)
             ELSE SubSeq(p, 1, SkipSlashes(p, e2 - 1))

\* The trust chain of p: p and each lexical parent, up to the first fixed
\* point of dirname.
RECURSIVE Chain(_)
Chain(p) == IF dirname(p) = p THEN <<p>> ELSE <<p>> \o Chain(dirname(p))

ChainSet(p) == {Chain(p)[i] : i \in 1..Len(Chain(p))}

----------------------------------------------------------------------------
\* struct stat and the mode macros of <sys/stat.h>.

S_IFDIR == 16384
S_IFREG == 32768
S_IFLNK == 40960
S_IXUSR == 64
S_IWGRP == 16
S_IWOTH == 2
\* rw------- : the owner bits no check reads.
S_IRWUSR == 384

\* m & bit, for a mask of one bit.
BitAnd(m, bit) == ((m \div bit) % 2) * bit

\* m & S_IFMT: the four bits above the twelve permission bits.
FileType(m) == ((m \div 4096) % 16) * 4096

S_ISLNK(m) == FileType(m) = S_IFLNK

Devs == {1, 2}
Uids == {0, 501}
Gids == {0, 20}
Modes == {t + S_IRWUSR + x + g + o :
            t \in {S_IFDIR, S_IFREG, S_IFLNK},
            x \in {0, S_IXUSR}, g \in {0, S_IWGRP}, o \in {0, S_IWOTH}}

\* lstat(2) failed: rc is -1 and the stat buffer is not to be read.
NoStat == [rc |-> -1, st_dev |-> 0, st_mode |-> 0, st_uid |-> 0, st_gid |-> 0]

\* Every result lstat can give within the bounds.
StatSpace ==
    [rc : {0}, st_dev : Devs, st_mode : Modes, st_uid : Uids, st_gid : Gids]
    \cup {NoStat}

Stat(dev, mode, u, g) ==
    [rc |-> 0, st_dev |-> dev, st_mode |-> mode, st_uid |-> u, st_gid |-> g]

\* The results the host-level specification draws from: a directory and a
\* file that pass, and one result for each way of failing.
StatSamples ==
    { Stat(1, S_IFDIR + 493, 0, 0),          \* drwxr-xr-x root:wheel
      Stat(1, S_IFDIR + 509, 0, 0),          \* drwxrwxr-x root:wheel
      NoStat,
      Stat(2, S_IFDIR + 493, 0, 0),          \* on another device
      Stat(1, S_IFLNK + 493, 0, 0),          \* a symbolic link
      Stat(1, S_IFDIR + 493, 501, 0),        \* owned by a user
      Stat(1, S_IFDIR + 495, 0, 0),          \* world writable
      Stat(1, S_IFDIR + 509, 0, 20),         \* group writable, gid 20
      Stat(1, S_IFREG + 420, 0, 0) }         \* -rw-r--r-- : not executable

----------------------------------------------------------------------------
\* VerifyScript, one recursion frame per step.

\* VerifyScriptBody with the symbolic-link test reading rootInfo for info.
VerifyScriptBody_LinkOfRoot(p, rootInfo, info) ==
    IF rootInfo.rc # 0 THEN "false"
    ELSE IF info.rc # 0 THEN "false"
    ELSE IF info.st_dev # rootInfo.st_dev THEN "false"
    ELSE IF S_ISLNK(rootInfo.st_mode) THEN "false"
    ELSE IF info.st_uid # 0 THEN "false"
    ELSE IF BitAnd(info.st_mode, S_IWOTH) # 0 THEN "false"
    ELSE IF BitAnd(info.st_mode, S_IWGRP) # 0 /\ info.st_gid # 0 THEN "false"
    ELSE IF BitAnd(info.st_mode, S_IXUSR) = 0 THEN "false"
    ELSE IF p = Root THEN "true"
    ELSE "recurse"

\* VerifyScriptBody refusing every group-writable node, whatever its group.
VerifyScriptBody_AnyGroup(p, rootInfo, info) ==
    IF rootInfo.rc # 0 THEN "false"
    ELSE IF info.rc # 0 THEN "false"
    ELSE IF info.st_dev # rootInfo.st_dev THEN "false"
    ELSE IF S_ISLNK(info.st_mode) THEN "false"
    ELSE IF info.st_uid # 0 THEN "false"
    ELSE IF BitAnd(info.st_mode, S_IWOTH) # 0 THEN "false"
    ELSE IF BitAnd(info.st_mode, S_IWGRP) # 0 THEN "false"
    ELSE IF BitAnd(info.st_mode, S_IXUSR) = 0 THEN "false"
    ELSE IF p = Root THEN "true"
    ELSE "recurse"

\* VerifyScriptBody with the test for "/" ahead of the tests on info.
VerifyScriptBody_RootFirst(p, rootInfo, info) ==
    IF rootInfo.rc # 0 THEN "false"
    ELSE IF info.rc # 0 THEN "false"
    ELSE IF p = Root THEN "true"
    ELSE IF info.st_dev # rootInfo.st_dev THEN "false"
    ELSE IF S_ISLNK(info.st_mode) THEN "false"
    ELSE IF info.st_uid # 0 THEN "false"
    ELSE IF BitAnd(info.st_mode, S_IWOTH) # 0 THEN "false"
    ELSE IF BitAnd(info.st_mode, S_IWGRP) # 0 /\ info.st_gid # 0 THEN "false"
    ELSE IF BitAnd(info.st_mode, S_IXUSR) = 0 THEN "false"
    ELSE "recurse"

\* VerifyScriptBody with the base case comparing path with "" for "/".
VerifyScriptBody_NoBase(p, rootInfo, info) ==
    IF rootInfo.rc # 0 THEN "false"
    ELSE IF info.rc # 0 THEN "false"
    ELSE IF info.st_dev # rootInfo.st_dev THEN "false"
    ELSE IF S_ISLNK(info.st_mode) THEN "false"
    ELSE IF info.st_uid # 0 THEN "false"
    ELSE IF BitAnd(info.st_mode, S_IWOTH) # 0 THEN "false"
    ELSE IF BitAnd(info.st_mode, S_IWGRP) # 0 /\ info.st_gid # 0 THEN "false"
    ELSE IF BitAnd(info.st_mode, S_IXUSR) = 0 THEN "false"
    ELSE IF p = <<>> THEN "true"
    ELSE "recurse"

\* The body of VerifyScript for one frame, given what its two lstat calls
\* returned: "false", "true", or "recurse" (the tail call on dirname(path)).
VerifyScriptBody(p, rootInfo, info) ==
    IF rootInfo.rc # 0 THEN "false"                       \* can't stat /
    ELSE IF info.rc # 0 THEN "false"                      \* can't stat path
    ELSE IF info.st_dev # rootInfo.st_dev THEN "false"    \* not on boot volume
    ELSE IF S_ISLNK(info.st_mode) THEN "false"            \* symbolic link
    ELSE IF info.st_uid # 0 THEN "false"                  \* not owned by root
    ELSE IF BitAnd(info.st_mode, S_IWOTH) # 0 THEN "false"
    ELSE IF BitAnd(info.st_mode, S_IWGRP) # 0 /\ info.st_gid # 0 THEN "false"
    ELSE IF BitAnd(info.st_mode, S_IXUSR) = 0 THEN "false"
    ELSE IF p = Root THEN "true"
    ELSE "recurse"

\* What lstat("/") can return in this frame: the file system does not change
\* during the call, so a result already read is read again, and a root whose
\* device an earlier frame has read keeps that device.
RootResults(S) ==
    IF \E q \in DOMAIN seen : IsRootPath(q)
    THEN {seen[q] : q \in {r \in DOMAIN seen : IsRootPath(r)}}
    ELSE {s \in S : rootDev = {} \/ (s.rc = 0 /\ s.st_dev \in rootDev)}

\* What lstat(p) can return in this frame, given what lstat("/") returned.
PathResults(p, rootInfo, S) ==
    IF IsRootPath(p) THEN {rootInfo}
    ELSE IF p \in DOMAIN seen THEN {seen[p]}
    ELSE S

\* One frame of VerifyScript on `path`, its lstat results drawn from S.
VerifyFrame(S) ==
    /\ vResult = "pending"
    /\ \E rootInfo \in RootResults(S) :
         \E info \in PathResults(path, rootInfo, S) :
           LET r == VerifyScriptBody(path, rootInfo, info) IN
             /\ rootDev' = IF rootInfo.rc = 0 THEN {rootInfo.st_dev} ELSE rootDev
             /\ seen' = IF rootInfo.rc # 0
                        THEN (Root :> rootInfo) @@ seen
                        ELSE (path :> info) @@ seen
             /\ vResult' = IF r = "recurse" THEN "pending" ELSE r
             /\ path' = IF r = "recurse" THEN dirname(path) ELSE path
    /\ UNCHANGED <<vPath0, hostVars>>
    /\ UNCHANGED <<cred, pluginVars, threadVars>>

----------------------------------------------------------------------------
\* Constants of the host interface and of <sysexits.h>, <sys/wait.h>.

kAuthorizationResultAllow == 0
kAuthorizationResultDeny == 1
errAuthorizationSuccess == 0
errAuthorizationInternal == -60008
EX_OSERR == 71
EX_NOPERM == 77
NOBODY == -2
STDERR_FILENO == 2
\* The model's stand-in for <sys/syslimits.h>'s OPEN_MAX.
OPEN_MAX == MaxFd

\* W_EXITCODE(ret, sig): the status word the kernel hands to waitpid.
W_EXITCODE(ret, sig) == ret * 256 + sig
\* The core-dump flag of a status word.
WCOREFLAG == 128
\* _WSTATUS(x) == x & 0177
WSTATUS(x) == x % 128
WIFSIGNALED(x) == WSTATUS(x) # 127 /\ WSTATUS(x) # 0
WEXITSTATUS(x) == (x \div 256) % 256

ExitCodes == 0..255
Signals == 1..31

\* What an int that was never written can hold.
GarbageStatus ==
    {W_EXITCODE(0, 0), W_EXITCODE(1, 0), W_EXITCODE(EX_NOPERM, 0), 9, 127}

\* Words the context store can hand back for "uid" and for "gid"; -294967296
\* is the word of uid 4000000000.
UidWords == {0, 501, NOBODY, -294967296}
GidWords == {0, 20, NOBODY}

\* What one GetContextValue call can return.
LookupResults(words) ==
    [err : {errAuthorizationSuccess}, data : words]
    \cup {[err |-> errAuthorizationInternal, data |-> 0]}

MechanismIds ==
    {"premount-root", "premount-user", "postmount-root", "postmount-user",
     "", "premount", "root-premount", "Premount-root", "postmount-user "}

NoMech == [fMagic |-> "none", fContext |-> "none", fPhase |-> "none"]

\* open: the descriptors above stderr the process holds; cloexec: those of
\* them marked FD_CLOEXEC; closed: those the image replacement closed.
NoChild == [cpc |-> "none", euid |-> 0, egid |-> 0, maxfd |-> 0, fd |-> 0,
            open |-> {}, cloexec |-> {}, closed |-> {}, argv |-> <<>>,
            status |-> 0]

NoOutcome == [by |-> "none", code |-> 0]

----------------------------------------------------------------------------
\* AuthorizationPluginCreate.

\* <Security/AuthorizationPlugin.h>: the lowest callback-table version the
\* plugin was built for, in an SDK that knows a lower one.
kAuthorizationCallbacksVersion == 1

\* The versions a host's callback table can carry.
CallbackVersions ==
    {kAuthorizationCallbacksVersion - 1, kAuthorizationCallbacksVersion}

NoPlugin == [fMagic |-> "none", version |-> 0, fLogClient |-> "none"]

NoCallbacks == [version |-> -1]

PluginValid(p) ==
    /\ p # NoPlugin
    /\ p.fMagic = "PLSP"
    /\ p.version >= kAuthorizationCallbacksVersion
    /\ p.fLogClient # "none"

\* The entry point the host loads the plugin through.  assert() aborts the
\* process, or is compiled out when the plugin is built with NDEBUG.
AuthorizationPluginCreate(aslOk, version, mallocOk, ndebug) ==
    /\ pluginPc = "unloaded"
    /\ callbacks' = [version |-> version]
    /\ IF ~aslOk
       THEN /\ pluginErr' = errAuthorizationInternal
            /\ pluginPc' = "returned"
            /\ UNCHANGED <<plugin, outPlugin, outPluginInterface>>
       ELSE IF ~ndebug /\ version < kAuthorizationCallbacksVersion
       THEN /\ pluginPc' = "aborted"
            /\ UNCHANGED <<plugin, outPlugin, outPluginInterface, pluginErr>>
       ELSE IF ~mallocOk
       THEN /\ pluginErr' = errAuthorizationInternal
            /\ pluginPc' = "returned"
            /\ UNCHANGED <<plugin, outPlugin, outPluginInterface>>
       ELSE /\ plugin' = [fMagic |-> "PLSP", version |-> version,
                          fLogClient |-> "log_client"]
            /\ outPlugin' = "plugin"
            /\ outPluginInterface' = "gPluginInterface"
            /\ pluginErr' = errAuthorizationSuccess
            /\ pluginPc' = "returned"
    /\ UNCHANGED <<hostVars, verifyVars, cred, threadVars>>

----------------------------------------------------------------------------
\* MechanismCreate.

\* ParseMechanismId with the final else branch falling into the last case.
ParseMechanismId_NoElse(id) ==
    IF id = "premount-root"
    THEN [known |-> TRUE, context |-> "kRunAsRoot", phase |-> "kRunBeforeHomedirMount"]
    ELSE IF id = "premount-user"
    THEN [known |-> TRUE, context |-> "kRunAsUser", phase |-> "kRunBeforeHomedirMount"]
    ELSE IF id = "postmount-root"
    THEN [known |-> TRUE, context |-> "kRunAsRoot", phase |-> "kRunAfterHomedirMount"]
    ELSE [known |-> TRUE, context |-> "kRunAsUser", phase |-> "kRunAfterHomedirMount"]

\* The strcmp chain of MechanismCreate: the (context, phase) a mechanismId
\* selects, or known = FALSE.
ParseMechanismId(id) ==
    IF id = "premount-root"
    THEN [known |-> TRUE, context |-> "kRunAsRoot", phase |-> "kRunBeforeHomedirMount"]
    ELSE IF id = "premount-user"
    THEN [known |-> TRUE, context |-> "kRunAsUser", phase |-> "kRunBeforeHomedirMount"]
    ELSE IF id = "postmount-root"
    THEN [known |-> TRUE, context |-> "kRunAsRoot", phase |-> "kRunAfterHomedirMount"]
    ELSE IF id = "postmount-user"
    THEN [known |-> TRUE, context |-> "kRunAsUser", phase |-> "kRunAfterHomedirMount"]
    ELSE [known |-> FALSE, context |-> "none", phase |-> "none"]

\* The host keeps one mechanism of this plugin alive at a time.
MechanismCreate(mechanismId, mallocOk) ==
    /\ pc = "idle"
    /\ PluginValid(plugin)
    /\ allocs = 0
    /\ mechId' = mechanismId
    /\ LET parsed == ParseMechanismId(mechanismId) IN
         IF ~parsed.known
         THEN /\ outMechanism' = "NULL"
              /\ createErr' = errAuthorizationInternal
              /\ UNCHANGED <<mech, allocs>>
         ELSE IF ~mallocOk
         THEN /\ createErr' = errAuthorizationInternal
              /\ UNCHANGED <<mech, allocs, outMechanism>>
         ELSE /\ mech' = [fMagic |-> "MLSP", fContext |-> parsed.context,
                          fPhase |-> parsed.phase]
              /\ allocs' = allocs + 1
              /\ outMechanism' = "mechanism"
              /\ createErr' = errAuthorizationSuccess
    /\ UNCHANGED <<pc, uid, gid, scriptPath, result, childStatus, waitOk, child,
                   outcome, sys, reported, invokeRet, verifyVars>>
    /\ UNCHANGED <<cred, pluginVars, threadVars>>

----------------------------------------------------------------------------
\* MechanismInvoke, up to the call of ExecuteScript.

\* FormatScriptPath with the test of the context inverted.
FormatScriptPath_Swapped(m) ==
    kLoginScriptDir \o
    << "/",
       (IF m.fPhase = "kRunBeforeHomedirMount" THEN "premount" ELSE "postmount")
       \o "-" \o
       (IF m.fContext = "kRunAsRoot" THEN "user" ELSE "root") >>

\* snprintf(scriptPath, ..., "%s/%s-%s", kLoginScriptDir, phase, context)
FormatScriptPath(m) ==
    kLoginScriptDir \o
    << "/",
       (IF m.fPhase = "kRunBeforeHomedirMount" THEN "premount" ELSE "postmount")
       \o "-" \o
       (IF m.fContext = "kRunAsRoot" THEN "root" ELSE "user") >>

\* The uid (or gid) MechanismInvoke takes from one GetContextValue result.
ContextWord(got) ==
    IF got.err # errAuthorizationSuccess THEN NOBODY ELSE got.data

\* How one GetContextValue call is entered in sys: the word it handed back,
\* or -1 for a status other than errAuthorizationSuccess.
LookupEvent(name, got) ==
    IF got.err # errAuthorizationSuccess
    THEN "GetContextValue:" \o name \o ":-1"
    ELSE "GetContextValue:" \o name \o "=" \o ToString(got.data)

\* LookupFailed asking for both lookups to have failed.
LookupFailed_Both(u, g) == u = NOBODY /\ g = NOBODY

\* The test that sends MechanismInvoke past ExecuteScript.
LookupFailed(u, g) == u = NOBODY \/ g = NOBODY

\* Entry of MechanismInvoke: resolve the identity, then either give up on the
\* script or format its path and enter ExecuteScript, whose first statement
\* calls VerifyScript.
MechanismInvoke(uidGot, gidGot) ==
    /\ pc = "idle"
    /\ mech # NoMech
    /\ LET asRoot == mech.fContext = "kRunAsRoot"
           u == IF asRoot THEN 0 ELSE ContextWord(uidGot)
           g == IF asRoot THEN 0 ELSE ContextWord(gidGot)
       IN  /\ asRoot => (uidGot = [err |-> errAuthorizationInternal, data |-> 0]
                         /\ gidGot = uidGot)
           /\ uid' = u
           /\ gid' = g
           /\ result' = kAuthorizationResultAllow
           /\ IF LookupFailed(u, g)
              THEN /\ pc' = "report"
                   /\ scriptPath' = <<>>
                   /\ UNCHANGED verifyVars
              ELSE /\ pc' = "verify"
                   /\ scriptPath' = FormatScriptPath(mech)
                   /\ vPath0' = scriptPath'
                   /\ path' = scriptPath'
                   /\ vResult' = "pending"
                   /\ rootDev' = {}
                   /\ seen' = <<>>
           /\ sys' = IF asRoot THEN <<>>
                     ELSE <<LookupEvent("uid", uidGot), LookupEvent("gid", gidGot)>>
    /\ childStatus' = 0
    /\ waitOk' = FALSE
    /\ child' = NoChild
    /\ outcome' = NoOutcome
    /\ reported' = <<>>
    /\ UNCHANGED <<mechVars, invokeRet>>
    /\ UNCHANGED <<cred, pluginVars, threadVars>>

----------------------------------------------------------------------------
\* ExecuteScript: the parent.

\* VerifyReturn with the early return on a false VerifyScript left out.
VerifyReturn_AlwaysFork ==
    /\ pc = "verify"
    /\ vResult \in {"true", "false"}
    /\ pc' = "fork"
    /\ sys' = Append(sys, "VerifyScript:" \o vResult)
    /\ vResult' = "idle"
    /\ path' = <<>>
    /\ vPath0' = <<>>
    /\ rootDev' = {}
    /\ seen' = <<>>
    /\ UNCHANGED <<mechVars, uid, gid, scriptPath, result, childStatus, waitOk,
                   child, outcome, reported, invokeRet>>
    /\ UNCHANGED <<cred, pluginVars, threadVars>>

\* VerifyScript has returned into ExecuteScript: false returns Allow at once,
\* true goes on to fork.  The frame's reads are gone with the frame.
VerifyReturn ==
    /\ pc = "verify"
    /\ vResult \in {"true", "false"}
    /\ pc' = IF vResult = "true" THEN "fork" ELSE "report"
    /\ sys' = Append(sys, "VerifyScript:" \o vResult)
    /\ vResult' = "idle"
    /\ path' = <<>>
    /\ vPath0' = <<>>
    /\ rootDev' = {}
    /\ seen' = <<>>
    /\ UNCHANGED <<mechVars, uid, gid, scriptPath, result, childStatus, waitOk,
                   child, outcome, reported, invokeRet>>
    /\ UNCHANGED <<cred, pluginVars, threadVars>>

\* Fork with a failed fork leaving MechanismInvoke at once, SetResult uncalled.
Fork_FailureReturns(ok, openFds) ==
    /\ pc = "fork"
    /\ IF ok
       THEN /\ child' = [NoChild EXCEPT !.cpc = "creds", !.open = openFds,
                                        !.euid = cred.uid, !.egid = cred.gid]
            /\ sys' = Append(sys, "fork")
            /\ pc' = "wait"
       ELSE /\ openFds = {}
            /\ sys' = Append(sys, "fork:-1")
            /\ pc' = "idle"
            /\ UNCHANGED child
    /\ UNCHANGED <<mechVars, uid, gid, scriptPath, result, childStatus, waitOk,
                   outcome, reported, invokeRet, verifyVars>>
    /\ UNCHANGED <<cred, pluginVars, threadVars>>

\* fork(): -1 leaves the default result; otherwise the child starts with the
\* parent's identity and the descriptors the parent has open.
Fork(ok, openFds) ==
    /\ pc = "fork"
    /\ IF ok
       THEN /\ child' = [NoChild EXCEPT !.cpc = "creds", !.open = openFds,
                                        !.euid = cred.uid, !.egid = cred.gid]
            /\ sys' = Append(sys, "fork")
            /\ pc' = "wait"
       ELSE /\ openFds = {}
            /\ sys' = Append(sys, "fork:-1")
            /\ pc' = "report"
            /\ UNCHANGED child
    /\ UNCHANGED <<mechVars, uid, gid, scriptPath, result, childStatus, waitOk,
                   outcome, reported, invokeRet, verifyVars>>
    /\ UNCHANGED <<cred, pluginVars, threadVars>>

\* ClassifyStatus with every non-zero exit status taken as a refusal.
ClassifyStatus_AnyFailure(status) ==
    IF WIFSIGNALED(status) THEN kAuthorizationResultAllow
    ELSE IF WEXITSTATUS(status) # 0 THEN kAuthorizationResultDeny
    ELSE kAuthorizationResultAllow

\* Lines 351-363: the result ExecuteScript derives from childStatus.
ClassifyStatus(status) ==
    IF WIFSIGNALED(status) THEN kAuthorizationResultAllow
    ELSE IF WEXITSTATUS(status) = EX_NOPERM THEN kAuthorizationResultDeny
    ELSE kAuthorizationResultAllow

\* waitpid returns childPid once the child has terminated; the status is
\* classified and ExecuteScript returns.
WaitReturn ==
    /\ pc = "wait"
    /\ child.cpc = "zombie"
    /\ childStatus' = child.status
    /\ waitOk' = TRUE
    /\ result' = ClassifyStatus(child.status)
    /\ child' = NoChild
    /\ sys' = Append(sys, "waitpid")
    /\ pc' = "report"
    /\ UNCHANGED <<mechVars, uid, gid, scriptPath, outcome, reported, invokeRet,
                   verifyVars>>
    /\ UNCHANGED <<cred, pluginVars, threadVars>>

\* waitpid is interrupted while the child still runs and returns -1: that is
\* only logged, and childStatus, never written, is classified all the same.
\* The child is no longer this invocation's concern.
WaitFail(garbage) ==
    /\ pc = "wait"
    /\ child.cpc \in {"creds", "cloexec", "script"}
    /\ childStatus' = garbage
    /\ waitOk' = FALSE
    /\ result' = ClassifyStatus(garbage)
    /\ child' = NoChild
    /\ sys' = Append(sys, "waitpid:-1")
    /\ pc' = "report"
    /\ UNCHANGED <<mechVars, uid, gid, scriptPath, outcome, reported, invokeRet,
                   verifyVars>>
    /\ UNCHANGED <<cred, pluginVars, threadVars>>

\* SetResult with MechanismInvoke returning err, the status of the callback.
SetResult_ReturnsErr(err) ==
    /\ pc = "report"
    /\ reported' = Append(reported, result)
    /\ sys' = Append(sys, IF err = errAuthorizationSuccess
                          THEN "SetResult" ELSE "SetResult:err")
    /\ invokeRet' = err
    /\ pc' = "idle"
    /\ UNCHANGED <<mechVars, uid, gid, scriptPath, result, childStatus, waitOk,
                   child, outcome, verifyVars>>
    /\ UNCHANGED <<cred, pluginVars, threadVars>>

\* The tail of MechanismInvoke: SetResult (its failure only logged) and the
\* return of result as the OSStatus.
SetResult(err) ==
    /\ pc = "report"
    /\ reported' = Append(reported, result)
    /\ sys' = Append(sys, IF err = errAuthorizationSuccess
                          THEN "SetResult" ELSE "SetResult:err")
    /\ invokeRet' = result
    /\ pc' = "idle"
    /\ UNCHANGED <<mechVars, uid, gid, scriptPath, result, childStatus, waitOk,
                   child, outcome, verifyVars>>
    /\ UNCHANGED <<cred, pluginVars, threadVars>>

----------------------------------------------------------------------------
\* ExecuteScript: the child.

\* ChildStart dropping credentials only when neither uid nor gid is 0.
ChildStart_BothNonZero(gOk, uOk, sc) ==
    /\ child.cpc = "creds"
    /\ IF uid # 0 /\ gid # 0
       THEN /\ child' = [child EXCEPT
                           !.egid = IF gOk THEN gid ELSE @,
                           !.euid = IF uOk THEN uid ELSE @,
                           !.maxfd = IF sc < 0 THEN OPEN_MAX ELSE sc,
                           !.fd = STDERR_FILENO + 1,
                           !.cpc = "cloexec"]
            /\ sys' = sys \o << IF gOk THEN "setgid" ELSE "setgid:-1",
                                IF uOk THEN "setuid" ELSE "setuid:-1" >>
       ELSE /\ gOk /\ uOk
            /\ child' = [child EXCEPT
                           !.maxfd = IF sc < 0 THEN OPEN_MAX ELSE sc,
                           !.fd = STDERR_FILENO + 1,
                           !.cpc = "cloexec"]
            /\ UNCHANGED sys
    /\ UNCHANGED <<mechVars, pc, uid, gid, scriptPath, result, childStatus,
                   waitOk, outcome, reported, invokeRet, verifyVars>>
    /\ UNCHANGED <<cred, pluginVars, threadVars>>

\* Lines 314-324: the credential drop, whose return values are not read, and
\* the descriptor limit.
ChildStart(gOk, uOk, sc) ==
    /\ child.cpc = "creds"
    /\ IF uid # 0 \/ gid # 0
       THEN /\ child' = [child EXCEPT
                           !.egid = IF gOk THEN gid ELSE @,
                           !.euid = IF uOk THEN uid ELSE @,
                           !.maxfd = IF sc < 0 THEN OPEN_MAX ELSE sc,
                           !.fd = STDERR_FILENO + 1,
                           !.cpc = "cloexec"]
            /\ sys' = sys \o << IF gOk THEN "setgid" ELSE "setgid:-1",
                                IF uOk THEN "setuid" ELSE "setuid:-1" >>
       ELSE /\ gOk /\ uOk
            /\ child' = [child EXCEPT
                           !.maxfd = IF sc < 0 THEN OPEN_MAX ELSE sc,
                           !.fd = STDERR_FILENO + 1,
                           !.cpc = "cloexec"]
            /\ UNCHANGED sys
    /\ UNCHANGED <<mechVars, pc, uid, gid, scriptPath, result, childStatus,
                   waitOk, outcome, reported, invokeRet, verifyVars>>
    /\ UNCHANGED <<cred, pluginVars, threadVars>>

\* A terminated child: nothing is left of it but its status word.
Zombie(status) == [NoChild EXCEPT !.cpc = "zombie", !.status = status]

\* One turn of the loop of lines 325-334: fcntl(fd, F_SETFD, FD_CLOEXEC).
\* EBADF (fd is not open) is skipped; any other failure is exit(EX_NOPERM).
ChildCloexec(fcntlOk) ==
    /\ child.cpc = "cloexec"
    /\ child.fd < child.maxfd
    /\ IF child.fd \notin child.open
       THEN /\ fcntlOk
            /\ child' = [child EXCEPT !.fd = @ + 1]
            /\ UNCHANGED outcome
       ELSE IF fcntlOk
       THEN /\ child' = [child EXCEPT !.fd = @ + 1,
                                      !.cloexec = @ \cup {child.fd}]
            /\ UNCHANGED outcome
       ELSE /\ child' = Zombie(W_EXITCODE(EX_NOPERM, 0))
            /\ outcome' = [by |-> "child_exit", code |-> EX_NOPERM]
    /\ sys' = Append(sys, "fcntl")
    /\ UNCHANGED <<mechVars, pc, uid, gid, scriptPath, result, childStatus,
                   waitOk, reported, invokeRet, verifyVars>>
    /\ UNCHANGED <<cred, pluginVars, threadVars>>

\* snprintf(uidStr, sizeof(uidStr), "%d", uid): the word is printed as a
\* signed int, in at most ten digits and a sign, so nothing is cut off.
FormatD(w) == ToString(w)

\* ChildExec with the loop before it ending one descriptor early.
ChildExec_OffByOne(execOk) ==
    /\ child.cpc = "cloexec"
    /\ child.fd >= child.maxfd - 1
    /\ IF execOk
       THEN /\ child' = [child EXCEPT !.cpc = "script",
                                      !.argv = <<scriptPath, FormatD(uid)>>,
                                      !.open = @ \ child.cloexec,
                                      !.closed = child.cloexec,
                                      !.cloexec = {}]
            /\ sys' = Append(sys, "execl")
            /\ UNCHANGED outcome
       ELSE /\ child' = Zombie(W_EXITCODE(EX_OSERR, 0))
            /\ sys' = Append(sys, "execl:-1")
            /\ outcome' = [by |-> "child_exit", code |-> EX_OSERR]
    /\ UNCHANGED <<mechVars, pc, uid, gid, scriptPath, result, childStatus,
                   waitOk, reported, invokeRet, verifyVars>>
    /\ UNCHANGED <<cred, pluginVars, threadVars>>

\* ChildExec without the exit after a failed execl: the child goes on into
\* the return of ExecuteScript.
ChildExec_NoExit(execOk) ==
    /\ child.cpc = "cloexec"
    /\ child.fd >= child.maxfd
    /\ IF execOk
       THEN /\ child' = [child EXCEPT !.cpc = "script",
                                      !.argv = <<scriptPath, FormatD(uid)>>,
                                      !.open = @ \ child.cloexec,
                                      !.closed = child.cloexec,
                                      !.cloexec = {}]
            /\ sys' = Append(sys, "execl")
            /\ UNCHANGED outcome
       ELSE /\ child' = [child EXCEPT !.cpc = "returned"]
            /\ sys' = Append(sys, "execl:-1")
            /\ outcome' = [by |-> "child_exit", code |-> EX_OSERR]
    /\ UNCHANGED <<mechVars, pc, uid, gid, scriptPath, result, childStatus,
                   waitOk, reported, invokeRet, verifyVars>>
    /\ UNCHANGED <<cred, pluginVars, threadVars>>

\* Lines 336-342: format the uid with %d and replace the image; if execl
\* returns, exit(EX_OSERR).
ChildExec(execOk) ==
    /\ child.cpc = "cloexec"
    /\ child.fd >= child.maxfd
    /\ IF execOk
       THEN /\ child' = [child EXCEPT !.cpc = "script",
                                      !.argv = <<scriptPath, FormatD(uid)>>,
                                      !.open = @ \ child.cloexec,
                                      !.closed = child.cloexec,
                                      !.cloexec = {}]
            /\ sys' = Append(sys, "execl")
            /\ UNCHANGED outcome
       ELSE /\ child' = Zombie(W_EXITCODE(EX_OSERR, 0))
            /\ sys' = Append(sys, "execl:-1")
            /\ outcome' = [by |-> "child_exit", code |-> EX_OSERR]
    /\ UNCHANGED <<mechVars, pc, uid, gid, scriptPath, result, childStatus,
                   waitOk, reported, invokeRet, verifyVars>>
    /\ UNCHANGED <<cred, pluginVars, threadVars>>

\* The script, once started, exits with a status of its choosing.
ScriptExit(code) ==
    /\ child.cpc = "script"
    /\ child' = Zombie(W_EXITCODE(code, 0))
    /\ outcome' = [by |-> "script_exit", code |-> code]
    /\ UNCHANGED <<mechVars, pc, uid, gid, scriptPath, result, childStatus,
                   waitOk, sys, reported, invokeRet, verifyVars>>
    /\ UNCHANGED <<cred, pluginVars, threadVars>>

\* The child, before or after the image replacement, is killed by a signal.
ChildKilled(sig, core) ==
    /\ child.cpc \in {"creds", "cloexec", "script"}
    /\ child' = Zombie(W_EXITCODE(0, sig) + (IF core THEN WCOREFLAG ELSE 0))
    /\ outcome' = [by |-> IF child.cpc = "script" THEN "script_signal"
                          ELSE "child_signal",
                   code |-> sig]
    /\ UNCHANGED <<mechVars, pc, uid, gid, scriptPath, result, childStatus,
                   waitOk, sys, reported, invokeRet, verifyVars>>
    /\ UNCHANGED <<cred, pluginVars, threadVars>>

----------------------------------------------------------------------------
\* MechanismDeactivate and MechanismDestroy.

\* DidDeactivate is called at once and its status handed back to the host:
\* nothing of the plugin changes.
MechanismDeactivate ==
    /\ pc = "idle"
    /\ mech # NoMech
    /\ UNCHANGED vars

\* free(mechanism).  The histories of the instance's last invocation end
\* with the instance.
MechanismDestroy ==
    /\ pc = "idle"
    /\ mech # NoMech
    /\ mech' = NoMech
    /\ allocs' = allocs - 1
    /\ uid' = 0
    /\ gid' = 0
    /\ scriptPath' = <<>>
    /\ result' = kAuthorizationResultAllow
    /\ childStatus' = 0
    /\ waitOk' = FALSE
    /\ outcome' = NoOutcome
    /\ sys' = <<>>
    /\ reported' = <<>>
    /\ invokeRet' = errAuthorizationSuccess
    /\ outMechanism' = "freed"
    /\ UNCHANGED <<mechId, createErr, pc, child, verifyVars>>
    /\ UNCHANGED <<cred, pluginVars, threadVars>>

----------------------------------------------------------------------------
\* The specifications.

Init ==
    /\ mech = NoMech
    /\ mechId = "(none)"
    /\ outMechanism = "unset"
    /\ createErr = errAuthorizationSuccess
    /\ allocs = 0
    /\ pc = "idle"
    /\ uid = 0
    /\ gid = 0
    /\ scriptPath = <<>>
    /\ result = kAuthorizationResultAllow
    /\ childStatus = 0
    /\ waitOk = FALSE
    /\ child = NoChild
    /\ outcome = NoOutcome
    /\ sys = <<>>
    /\ reported = <<>>
    /\ invokeRet = errAuthorizationSuccess
    /\ vPath0 = <<>>
    /\ path = <<>>
    /\ vResult = "idle"
    /\ rootDev = {}
    /\ seen = <<>>
    /\ cred = [uid |-> 0, gid |-> 0]
    /\ plugin = NoPlugin
    /\ outPlugin = "unset"
    /\ outPluginInterface = "unset"
    /\ pluginErr = errAuthorizationSuccess
    /\ pluginPc = "unloaded"
    /\ callbacks = NoCallbacks
    /\ thread = <<>>
    /\ dirnameBuf = <<>>
    /\ fsys = <<>>

OpenFdSets == SUBSET ((STDERR_FILENO + 1)..(MaxFd - 1))

Next ==
    \/ \E aslOk \in BOOLEAN, v \in CallbackVersions, mallocOk \in BOOLEAN,
          ndebug \in BOOLEAN : AuthorizationPluginCreate(aslOk, v, mallocOk, ndebug)
    \/ \E id \in MechanismIds, mallocOk \in BOOLEAN : MechanismCreate(id, mallocOk)
    \/ \E u \in LookupResults(UidWords), g \in LookupResults(GidWords) :
         MechanismInvoke(u, g)
    \/ VerifyFrame(StatSamples)
    \/ VerifyReturn
    \/ \E ok \in BOOLEAN, fds \in OpenFdSets : Fork(ok, fds)
    \/ \E gOk \in BOOLEAN, uOk \in BOOLEAN, sc \in {-1, MaxFd} : ChildStart(gOk, uOk, sc)
    \/ \E ok \in BOOLEAN : ChildCloexec(ok)
    \/ \E ok \in BOOLEAN : ChildExec(ok)
    \/ \E code \in ExitCodes : ScriptExit(code)
    \/ \E sig \in Signals, core \in BOOLEAN : ChildKilled(sig, core)
    \/ WaitReturn
    \/ \E g \in GarbageStatus : WaitFail(g)
    \/ \E err \in {errAuthorizationSuccess, errAuthorizationInternal} : SetResult(err)
    \/ MechanismDeactivate
    \/ MechanismDestroy

Spec == Init /\ [][Next]_vars

\* The steps of the invoking process that its own code takes: none of them
\* waits for anything but the scheduler.  waitpid returns once the child has
\* terminated.
ParentStep ==
    \/ VerifyFrame(StatSamples)
    \/ VerifyReturn
    \/ \E ok \in BOOLEAN, fds \in OpenFdSets : Fork(ok, fds)
    \/ WaitReturn
    \/ \E err \in {errAuthorizationSuccess, errAuthorizationInternal} : SetResult(err)

\* The steps of the child up to the image replacement.
ChildStep ==
    \/ \E gOk \in BOOLEAN, uOk \in BOOLEAN, sc \in {-1, MaxFd} : ChildStart(gOk, uOk, sc)
    \/ \E ok \in BOOLEAN : ChildCloexec(ok)
    \/ \E ok \in BOOLEAN : ChildExec(ok)

\* Both processes are scheduled; nothing makes the host call again, the
\* script exit, a signal arrive or waitpid fail.
FairSpec == Spec /\ WF_vars(ParentStep) /\ WF_vars(ChildStep)

\* VerifyScript called on its own: every absolute path of at most MaxPathLen
\* tokens over "/" and one name, against every file system of the bounds.
RECURSIVE TokenSeqs(_)
TokenSeqs(n) ==
    IF n = 0 THEN {<<>>}
    ELSE LET shorter == TokenSeqs(n - 1) IN
         shorter \cup {Append(q, t) : q \in {r \in shorter : Len(r) = n - 1},
                                      t \in {"/", "a"}}

PathInputs == {p \in TokenSeqs(MaxPathLen) : IsAbsolute(p)}

\* Every path, absolute or relative, of one to MaxPathLen tokens.
AnyPathInputs == TokenSeqs(MaxPathLen) \ {<<>>}

VerifyCalled(inputs) ==
    /\ mech = NoMech
    /\ mechId = "(none)"
    /\ outMechanism = "unset"
    /\ createErr = errAuthorizationSuccess
    /\ allocs = 0
    /\ pc = "idle"
    /\ uid = 0
    /\ gid = 0
    /\ scriptPath = <<>>
    /\ result = kAuthorizationResultAllow
    /\ childStatus = 0
    /\ waitOk = FALSE
    /\ child = NoChild
    /\ outcome = NoOutcome
    /\ sys = <<>>
    /\ reported = <<>>
    /\ invokeRet = errAuthorizationSuccess
    /\ vPath0 \in inputs
    /\ path = vPath0
    /\ vResult = "pending"
    /\ rootDev = {}
    /\ seen = <<>>
    /\ cred = [uid |-> 0, gid |-> 0]
    /\ plugin = NoPlugin
    /\ outPlugin = "unset"
    /\ outPluginInterface = "unset"
    /\ pluginErr = errAuthorizationSuccess
    /\ pluginPc = "unloaded"
    /\ callbacks = NoCallbacks
    /\ thread = <<>>
    /\ dirnameBuf = <<>>
    /\ fsys = <<>>

InitVerify == VerifyCalled(PathInputs)

NextVerify == VerifyFrame(StatSpace)

SpecVerify == InitVerify /\ [][NextVerify]_vars

\* VerifyScript called on any path, its lstat results drawn from the
\* samples; the thread that called it is scheduled.
InitVerifyAny == VerifyCalled(AnyPathInputs)

NextVerifyAny == VerifyFrame(StatSamples)

FairSpecVerify ==
    InitVerifyAny /\ [][NextVerifyAny]_vars /\ WF_vars(NextVerifyAny)

----------------------------------------------------------------------------
\* Two mechanisms invoked on two threads, both inside VerifyScript.  dirname(3)
\* returns a pointer to one static buffer of the process: the path argument of
\* every frame but the outermost is that pointer.  A frame reads its path
\* three times: in lstat, in strcmp and in dirname.

Threads == {1, 2}

\* The MechanismRecord MechanismCreate builds for a recognized mechanismId.
MechanismOf(id) ==
    [fMagic |-> "MLSP", fContext |-> ParseMechanismId(id).context,
     fPhase |-> ParseMechanismId(id).phase]

\* The mechanismIds of the two instances.
ThreadIds ==
    { <<"premount-root", "premount-user">>,
      <<"postmount-user", "postmount-user">> }

\* Every path a frame of either thread can be handed.
ThreadNodes(ids) ==
    ChainSet(FormatScriptPath(MechanismOf(ids[1])))
    \cup ChainSet(FormatScriptPath(MechanismOf(ids[2])))

\* What lstat reports of a node: a directory or script that passes every
\* test, or one that is world writable.
ThreadStats == {Stat(1, S_IFDIR + 493, 0, 0), Stat(1, S_IFDIR + 495, 0, 0)}

\* The string the path argument of thread t's current frame points to.
PathOf(t) == IF thread[t].alias THEN dirnameBuf ELSE thread[t].own

\* lstat(p) on the threads' file system.
Lstat(p) == IF p \in DOMAIN fsys THEN fsys[p] ELSE NoStat

\* Lines 223-268 of one frame: the two lstat calls and the tests on them.
ThreadStat(t) ==
    /\ thread[t].pcv = "lstat"
    /\ LET p == PathOf(t)
           r == VerifyScriptBody(p, Lstat(Root), Lstat(p))
       IN  thread' = [thread EXCEPT
                        ![t].inspected = Append(@, p),
                        ![t].res = IF r = "false" THEN "false" ELSE @,
                        ![t].pcv = IF r = "false" THEN "done" ELSE "strcmp"]
    /\ UNCHANGED <<dirnameBuf, fsys, hostVars, verifyVars, cred, pluginVars>>

\* Line 271: strcmp(path, "/").
ThreadStrcmp(t) ==
    /\ thread[t].pcv = "strcmp"
    /\ thread' = [thread EXCEPT
                    ![t].res = IF PathOf(t) = Root THEN "true" ELSE @,
                    ![t].pcv = IF PathOf(t) = Root THEN "done" ELSE "dirname"]
    /\ UNCHANGED <<dirnameBuf, fsys, hostVars, verifyVars, cred, pluginVars>>

\* Line 278: dirname(path) fills the static buffer, and the next frame's path
\* is the buffer.
ThreadDirname(t) ==
    /\ thread[t].pcv = "dirname"
    /\ dirnameBuf' = dirname(PathOf(t))
    /\ thread' = [thread EXCEPT ![t].alias = TRUE, ![t].pcv = "lstat"]
    /\ UNCHANGED <<fsys, hostVars, verifyVars, cred, pluginVars>>

InitThreads ==
    /\ mech = NoMech
    /\ mechId = "(none)"
    /\ outMechanism = "unset"
    /\ createErr = errAuthorizationSuccess
    /\ allocs = 0
    /\ pc = "idle"
    /\ uid = 0
    /\ gid = 0
    /\ scriptPath = <<>>
    /\ result = kAuthorizationResultAllow
    /\ childStatus = 0
    /\ waitOk = FALSE
    /\ child = NoChild
    /\ outcome = NoOutcome
    /\ sys = <<>>
    /\ reported = <<>>
    /\ invokeRet = errAuthorizationSuccess
    /\ vPath0 = <<>>
    /\ path = <<>>
    /\ vResult = "idle"
    /\ rootDev = {}
    /\ seen = <<>>
    /\ cred = [uid |-> 0, gid |-> 0]
    /\ plugin = NoPlugin
    /\ outPlugin = "unset"
    /\ outPluginInterface = "unset"
    /\ pluginErr = errAuthorizationSuccess
    /\ pluginPc = "unloaded"
    /\ callbacks = NoCallbacks
    /\ dirnameBuf = <<>>
    /\ \E ids \in ThreadIds :
         /\ fsys \in [ThreadNodes(ids) -> ThreadStats]
         /\ thread = [t \in Threads |->
                        [pcv |-> "lstat",
                         own |-> FormatScriptPath(MechanismOf(ids[t])),
                         alias |-> FALSE, res |-> "pending",
                         inspected |-> <<>>]]

NextThreads ==
    \/ \E t \in Threads : ThreadStat(t)
    \/ \E t \in Threads : ThreadStrcmp(t)
    \/ \E t \in Threads : ThreadDirname(t)

SpecThreads == InitThreads /\ [][NextThreads]_vars

----------------------------------------------------------------------------
\* Vocabulary of the properties.

Allow == kAuthorizationResultAllow
Deny == kAuthorizationResultDeny

Events == {sys[i] : i \in 1..Len(sys)}

\* The events of spawning and running a child.
SpawnEvents ==
    {"fork", "fork:-1", "setgid", "setgid:-1", "setuid", "setuid:-1",
     "execl", "execl:-1", "waitpid", "waitpid:-1"}

\* MechanismInvoke has run to its return at least once on this instance and
\* no later invocation has begun.
Returned == pc = "idle" /\ Len(reported) > 0

\* ExecuteScript has returned, or never was called, in this invocation.
Decided == pc = "report" \/ Returned

\* The script was started and exited of its own accord with `code`.
ScriptExitedWith(code) == outcome = [by |-> "script_exit", code |-> code]

----------------------------------------------------------------------------
\* C1.  Deny is returned only if the script at the verified path was started
\* and exited normally with status 77: no run in which the script never
\* started ends in Deny.  Stated here for the runs whose waitpid returned the
\* child's pid.
ClaimC1 ==
    (Decided /\ waitOk /\ result = Deny) => ScriptExitedWith(77)

\* C2.  When the path verifies, fork succeeds and waitpid returns the child:
\* a normal exit with status 77 gives Deny, a normal exit with any other
\* status in 0..255 gives Allow, and death by a signal gives Allow.
ThmC2 ==
    (Decided /\ waitOk) =>
        /\ outcome.by \in {"script_exit", "child_exit", "script_signal",
                           "child_signal"}
        /\ (outcome.by \in {"script_exit", "child_exit"} /\ outcome.code = 77)
              => result = Deny
        /\ (outcome.by \in {"script_exit", "child_exit"} /\ outcome.code # 77)
              => result = Allow
        /\ outcome.by \in {"script_signal", "child_signal"} => result = Allow

\* A script that exited with 71, the status the child itself uses when execl
\* fails, has been waited for and classified.
WitC2 == Returned /\ waitOk /\ ScriptExitedWith(71) /\ reported = <<Allow>>

\* C3.  Within one invocation fork happens only after VerifyScript has
\* returned true, and when VerifyScript returns false ExecuteScript returns
\* Allow with no fork, credential drop, exec or wait.
ThmC3 ==
    /\ \A i \in 1..Len(sys) :
         sys[i] \in SpawnEvents =>
            \E j \in 1..(i - 1) : sys[j] = "VerifyScript:true"
    /\ child # NoChild => "VerifyScript:true" \in Events
    /\ "VerifyScript:false" \in Events =>
         /\ Events \cap SpawnEvents = {}
         /\ child = NoChild
         /\ Decided
         /\ result = Allow

\* An invocation whose script failed verification has returned.
WitC3 ==
    /\ Returned
    /\ "VerifyScript:false" \in Events
    /\ reported = <<Allow>>

----------------------------------------------------------------------------
LookupFailures == {"GetContextValue:uid:-1", "GetContextValue:gid:-1"}

VerifyEvents == {"VerifyScript:true", "VerifyScript:false"}

\* C7.  In the user context, when the lookup of "uid" or of "gid" fails,
\* MechanismInvoke formats and verifies no script path, spawns no process and
\* reports Allow.
ThmC7 ==
    Events \cap LookupFailures # {} =>
        /\ mech.fContext = "kRunAsUser"
        /\ scriptPath = <<>>
        /\ vResult = "idle"
        /\ Events \cap (VerifyEvents \cup SpawnEvents) = {}
        /\ child = NoChild
        /\ result = Allow
        /\ Decided
        /\ Returned => reported = <<Allow>>

\* The lookup of "uid" succeeded, that of "gid" failed, and the invocation
\* has returned.
WitC7 ==
    /\ Returned
    /\ "GetContextValue:uid=501" \in Events
    /\ "GetContextValue:gid:-1" \in Events
    /\ reported = <<Allow>>

\* C8.  Identity resolution is verbatim: in the root context the identity is
\* (0,0) and GetContextValue is not called; in the user context, for every
\* pair of words (u, g) the two lookups return successfully, ExecuteScript is
\* called with uid = u and gid = g.
ClaimC8 ==
    /\ (pc # "idle" /\ mech.fContext = "kRunAsRoot") =>
          /\ uid = 0 /\ gid = 0
          /\ \A i \in 1..Len(sys) :
               sys[i] \notin {LookupEvent(n, r) :
                                n \in {"uid", "gid"},
                                r \in LookupResults(UidWords \cup GidWords)}
    /\ \A u \in UidWords, g \in GidWords :
          ( /\ Len(sys) >= 2
            /\ sys[1] = "GetContextValue:uid=" \o ToString(u)
            /\ sys[2] = "GetContextValue:gid=" \o ToString(g) ) =>
              /\ uid = u /\ gid = g
              /\ scriptPath # <<>>

\* C9.  MechanismCreate maps "premount-root", "premount-user",
\* "postmount-root", "postmount-user" to (Administrative, BeforeHomeMount),
\* (TargetUser, BeforeHomeMount), (Administrative, AfterHomeMount),
\* (TargetUser, AfterHomeMount); for any other string it returns
\* errAuthorizationInternal, hands back NULL and allocates nothing.
RecognizedIds ==
    {"premount-root", "premount-user", "postmount-root", "postmount-user"}

Documented(id) ==
    CASE id = "premount-root" -> <<"Administrative", "BeforeHomeMount">>
      [] id = "premount-user" -> <<"TargetUser", "BeforeHomeMount">>
      [] id = "postmount-root" -> <<"Administrative", "AfterHomeMount">>
      [] id = "postmount-user" -> <<"TargetUser", "AfterHomeMount">>

InstanceTags(m) ==
    << CASE m.fContext = "kRunAsRoot" -> "Administrative"
         [] m.fContext = "kRunAsUser" -> "TargetUser"
         [] OTHER -> "none",
       CASE m.fPhase = "kRunBeforeHomedirMount" -> "BeforeHomeMount"
         [] m.fPhase = "kRunAfterHomedirMount" -> "AfterHomeMount"
         [] OTHER -> "none" >>

ThmC9 ==
    /\ mech # NoMech =>
          /\ mechId \in RecognizedIds
          /\ InstanceTags(mech) = Documented(mechId)
          /\ outMechanism = "mechanism"
          /\ createErr = errAuthorizationSuccess
          /\ allocs = 1
    /\ mechId \in MechanismIds \ RecognizedIds =>
          /\ createErr = errAuthorizationInternal
          /\ outMechanism = "NULL"
          /\ mech = NoMech
          /\ allocs = 0
    /\ (mechId \in RecognizedIds /\ createErr = errAuthorizationSuccess) =>
          outMechanism \in {"mechanism", "freed"}

\* A mechanismId that differs from a recognized one only in case was refused.
WitC9 ==
    /\ mechId = "Premount-root"
    /\ createErr = errAuthorizationInternal
    /\ outMechanism = "NULL"

\* C10.  Every invocation that reaches ExecuteScript passes the path
\* kLoginScriptDir "/" m, m being the mechanismId the instance was created
\* with: only that path is verified and executed, whatever the context store
\* returned.
ThmC10 ==
    /\ scriptPath # <<>> =>
          /\ mechId \in RecognizedIds
          /\ scriptPath = kLoginScriptDir \o <<"/", mechId>>
    /\ pc = "verify" =>
          /\ vPath0 = scriptPath
          /\ path \in ChainSet(scriptPath)
          /\ scriptPath # <<>>
    /\ pc \in {"fork", "wait"} => scriptPath # <<>>
    /\ child.argv # <<>> => child.argv[1] = scriptPath

\* The script of a "postmount-user" instance runs for uid 501.
WitC10 ==
    /\ child.cpc = "script"
    /\ mechId = "postmount-user"
    /\ uid = 501
    /\ child.argv[1] = kLoginScriptDir \o <<"/", "postmount-user">>

----------------------------------------------------------------------------
\* What the properties of VerifyScript say of one lstat result, read off the
\* octal digits of st_mode.

Inspectable(st) == st.rc = 0
IsSymlink(st) == st.st_mode \div 4096 = 10
RootOwned(st) == st.st_uid = 0
WorldWritable(st) == (st.st_mode % 8) \in {2, 3, 6, 7}
GroupWritable(st) == ((st.st_mode \div 8) % 8) \in {2, 3, 6, 7}
OwnerExecutable(st) == ((st.st_mode \div 64) % 8) \in {1, 3, 5, 7}

\* Every condition the trust chain asks of each of its nodes, the device
\* being that of "/".
NodeTrusted(st, dev) ==
    /\ Inspectable(st)
    /\ st.st_dev = dev
    /\ ~IsSymlink(st)
    /\ RootOwned(st)
    /\ ~WorldWritable(st)
    /\ GroupWritable(st) => st.st_gid = 0

\* C4.  Soundness of VerifyScript on an absolute path, the file system not
\* changing during the call: when it returns true, the path and each lexical
\* ancestor up to and including "/" can be inspected, is on the device of
\* "/", is no symbolic link, is owned by uid 0, is not world-writable, is
\* group-writable only with gid 0, and the leaf is executable by its owner.
ThmC4 ==
    (vResult = "true" /\ IsAbsolute(vPath0)) =>
        /\ Root \in ChainSet(vPath0)
        /\ \A n \in ChainSet(vPath0) :
             /\ n \in DOMAIN seen
             /\ Root \in DOMAIN seen
             /\ NodeTrusted(seen[n], seen[Root].st_dev)
        /\ OwnerExecutable(seen[vPath0])

\* VerifyScript has returned true on a path two directories deep, one of
\* whose nodes is group-writable.
WitC4 ==
    /\ vResult = "true"
    /\ vPath0 = <<"/", "a", "/", "a">>
    /\ DOMAIN seen = ChainSet(vPath0)
    /\ \E n \in DOMAIN seen : GroupWritable(seen[n])

\* C5.  Completeness of VerifyScript with the owner-executable bit asked of
\* the leaf only: on a chain whose every node is on the root device,
\* root-owned, no symbolic link, not world-writable and group-writable only
\* with gid 0, and whose leaf is owner-executable, VerifyScript returns true.
\* The nodes above the one a call stops at are never read and may hold
\* anything, trusted nodes included; so the statement is that a call that
\* returns false has read a node that breaks one of those conditions.
OrigC5 ==
    (vResult = "false" /\ IsAbsolute(vPath0)) =>
        \E n \in DOMAIN seen :
            \/ \A dev \in rootDev : ~NodeTrusted(seen[n], dev)
            \/ n = vPath0 /\ ~OwnerExecutable(seen[n])

\* C5 as amended: the owner-executable bit is asked of every node of the
\* chain, the ancestor directories and "/" included.
ThmC5 ==
    (vResult = "false" /\ IsAbsolute(vPath0)) =>
        \E n \in DOMAIN seen :
            \/ \A dev \in rootDev : ~NodeTrusted(seen[n], dev)
            \/ ~OwnerExecutable(seen[n])

\* A chain of three trusted, owner-executable nodes, its directories
\* group-writable by gid 0, on which VerifyScript has returned true.
WitC5 ==
    /\ vResult = "true"
    /\ Len(Chain(vPath0)) = 3
    /\ \A n \in ChainSet(vPath0) :
         /\ n \in DOMAIN seen
         /\ NodeTrusted(seen[n], seen[Root].st_dev)
         /\ OwnerExecutable(seen[n])
         /\ n # vPath0 => (GroupWritable(seen[n]) /\ seen[n].st_gid = 0)

----------------------------------------------------------------------------
\* The parent is blocked in waitpid on a script that is still running.
WaitingOnScript == pc = "wait" /\ child.cpc = "script"

\* C6.  Every MechanismInvoke call eventually calls SetResult, exactly once,
\* on every path and whatever the script does.
OrigC6 == (pc # "idle") ~> (pc = "idle" /\ Len(reported) = 1)

\* C6 as amended: SetResult is never called twice in one invocation, an
\* invocation that returns has called it exactly once, and every invocation
\* either returns or stays blocked in waitpid on a script that has not
\* terminated.
ThmC6 ==
    /\ [](Len(reported) <= 1)
    /\ [][(pc # "idle" /\ pc' = "idle") => Len(reported') = 1]_vars
    /\ (pc # "idle") ~> (pc = "idle" \/ WaitingOnScript)
    /\ (pc = "wait" /\ child.cpc = "zombie") ~> (pc = "idle" /\ Len(reported) = 1)

\* An invocation whose child was killed by a signal after the image
\* replacement has reported Allow and returned.
WitC6 ==
    /\ Returned
    /\ outcome.by = "script_signal"
    /\ waitOk
    /\ reported = <<Allow>>

----------------------------------------------------------------------------
\* C11.  If waitpid does not return the child's pid (it is interrupted or
\* fails), ExecuteScript returns the default Allow: the result does not depend
\* on any child status value.
ClaimC11 ==
    (Decided /\ "waitpid:-1" \in Events) => result = Allow

\* C12.  In the child a failure of setgid or of setuid is fatal: the child
\* terminates without replacing its image, so the script never runs with an
\* effective identity other than the target identity.
ClaimC12 ==
    /\ Events \cap {"setgid:-1", "setuid:-1"} # {} => "execl" \notin Events
    /\ child.cpc = "script" => (child.euid = uid /\ child.egid = gid)

----------------------------------------------------------------------------
\* VerifyScript on p with no other call in flight, on the file system fs: its
\* result, and the paths it inspects, in order.
RECURSIVE VerifyAlone(_, _)
VerifyAlone(p, fs) ==
    LET r == VerifyScriptBody(p, fs[Root], fs[p])
    IN  IF r = "recurse" THEN VerifyAlone(dirname(p), fs) ELSE r

RECURSIVE InspectedAlone(_, _)
InspectedAlone(p, fs) ==
    IF VerifyScriptBody(p, fs[Root], fs[p]) = "recurse"
    THEN <<p>> \o InspectedAlone(dirname(p), fs)
    ELSE <<p>>

\* C13.  When two instances run MechanismInvoke on two threads at once, no
\* mutable state is shared between their VerifyScript calls: under every
\* interleaving each call inspects exactly the lexical ancestors of its own
\* path, and returns what it returns when the calls run one after the other
\* on the same file system.
ClaimC13 ==
    \A t \in DOMAIN thread :
        thread[t].pcv = "done" =>
            /\ thread[t].res = VerifyAlone(thread[t].own, fsys)
            /\ thread[t].inspected = InspectedAlone(thread[t].own, fsys)

----------------------------------------------------------------------------
\* n in 0..99999 written with five digits.
Pad5(n) ==
    (IF n < 10 THEN "0000" ELSE IF n < 100 THEN "000"
     ELSE IF n < 1000 THEN "00" ELSE IF n < 10000 THEN "0" ELSE "")
    \o ToString(n)

\* The decimal numeral of the unsigned value of the 32-bit word w: for a
\* negative w that value is w + 2^32, added here in halves of five digits
\* (2^31 is 21474 83648).
UnsignedDecimal(w) ==
    IF w >= 0 THEN ToString(w)
    ELSE LET v == (w + 2147483647) + 1
             lo == (v % 100000) + 83648
             hi == (v \div 100000) + 21474 + (lo \div 100000)
         IN  ToString(hi) \o Pad5(lo % 100000)

\* C14.  The script is started with exactly two arguments: argument zero is
\* the script path and argument one is the decimal string of the target uid,
\* for every uid in 0..2^32-1.
ClaimC14 ==
    child.cpc = "script" =>
        child.argv = <<scriptPath, UnsignedDecimal(uid)>>

----------------------------------------------------------------------------
\* C15.  AuthorizationPluginCreate with a callback table whose version is
\* below kAuthorizationCallbacksVersion is rejected: the call returns
\* errAuthorizationInternal to the host, and neither a plugin reference nor a
\* dispatch table is handed back.
ClaimC15 ==
    (pluginPc # "unloaded" /\ callbacks.version < kAuthorizationCallbacksVersion)
        => /\ pluginPc = "returned"
           /\ pluginErr = errAuthorizationInternal
           /\ plugin = NoPlugin
           /\ outPlugin = "unset"
           /\ outPluginInterface = "unset"

----------------------------------------------------------------------------
\* C16.  VerifyScript("/") returns true whenever "/" can be inspected,
\* whatever the owner and the mode bits of "/" are.
OrigC16 ==
    ( /\ vPath0 = Root
      /\ vResult \in {"true", "false"}
      /\ Root \in DOMAIN seen
      /\ Inspectable(seen[Root]) ) => vResult = "true"

\* C16 as amended: VerifyScript("/") returns true exactly when "/" can be
\* inspected, is no symbolic link, is owned by uid 0, is not world-writable,
\* is group-writable only with gid 0, and is executable by its owner.
ThmC16 ==
    (vPath0 = Root /\ vResult \in {"true", "false"}) =>
        /\ Root \in DOMAIN seen
        /\ vResult = "true" <=>
              ( /\ NodeTrusted(seen[Root], seen[Root].st_dev)
                /\ OwnerExecutable(seen[Root]) )

\* VerifyScript("/") has returned true on a root directory that its group,
\* wheel, may write.
WitC16 ==
    /\ vPath0 = Root
    /\ vResult = "true"
    /\ GroupWritable(seen[Root])
    /\ seen[Root].st_gid = 0

----------------------------------------------------------------------------
SetgidEvents == {"setgid", "setgid:-1"}
SetuidEvents == {"setuid", "setuid:-1"}
ExecEvents == {"execl", "execl:-1"}

\* The child of this invocation is past its credential drop.
PastCreds ==
    \/ child.cpc \in {"cloexec", "script"}
    \/ Events \cap ({"fcntl"} \cup ExecEvents) # {}

\* C17.  Order of the child's steps: setgid and setuid are called if and only
\* if the target identity is not (0,0); setgid is called before setuid; and
\* the credential drop and the fcntl(F_SETFD, FD_CLOEXEC) calls all come
\* before execl, none after it.
ThmC17 ==
    /\ PastCreds =>
          /\ (uid # 0 \/ gid # 0) =>
                /\ Cardinality({i \in 1..Len(sys) : sys[i] \in SetgidEvents}) = 1
                /\ Cardinality({i \in 1..Len(sys) : sys[i] \in SetuidEvents}) = 1
          /\ (uid = 0 /\ gid = 0) =>
                Events \cap (SetgidEvents \cup SetuidEvents) = {}
    /\ \A i \in 1..Len(sys) :
          /\ sys[i] \in SetgidEvents =>
                (i < Len(sys) /\ sys[i + 1] \in SetuidEvents)
          /\ sys[i] \in SetuidEvents =>
                (i > 1 /\ sys[i - 1] \in SetgidEvents)
          /\ sys[i] \in ExecEvents =>
                /\ \A j \in 1..Len(sys) :
                      sys[j] \in SetgidEvents \cup SetuidEvents \cup {"fcntl"}
                         => j < i
                /\ Cardinality({j \in 1..Len(sys) : sys[j] = "fcntl"})
                      = OPEN_MAX - (STDERR_FILENO + 1)

\* The script runs for uid 0 and gid 20: the group was set, then the user,
\* then the descriptors were marked, then the image was replaced.
WitC17 ==
    /\ child.cpc = "script"
    /\ uid = 0
    /\ gid = 20
    /\ \E i \in 1..Len(sys) :
          /\ sys[i] = "setgid"
          /\ sys[i + 1] = "setuid"
          /\ sys[i + 2] = "fcntl"
          /\ sys[Len(sys)] = "execl"

----------------------------------------------------------------------------
\* C18.  When the child replaces its image, every descriptor from 3 up to the
\* descriptor limit that is open in the child is marked close-on-exec, so the
\* script inherits only descriptors 0, 1 and 2; a descriptor that is not open
\* is skipped and the child goes on.
ThmC18 ==
    /\ [](child.cpc = "cloexec" =>
             child.cloexec = {f \in child.open : f < child.fd})
    /\ [][(child.cpc = "cloexec" /\ child'.cpc = "script") =>
             /\ child.fd >= child.maxfd
             /\ child.cloexec = child.open
             /\ child'.closed = child.open]_vars
    /\ [](child.cpc = "script" => child.open = {})

\* The script runs; descriptor 3 was not open in the child and descriptor 4,
\* which was, has been closed by the image replacement.
WitC18 ==
    /\ child.cpc = "script"
    /\ child.closed = {STDERR_FILENO + 2}
    /\ child.open = {}

----------------------------------------------------------------------------
\* C19.  VerifyScript terminates on every path, absolute or relative: each
\* recursion step moves to a strictly shorter lexical parent.  So no frame is
\* entered on a path this call has already inspected; such a frame reads what
\* was read before and is entered again, without end.
OrigC19 ==
    vResult = "pending" => path \notin DOMAIN seen

\* C19 as amended: on every absolute path each recursion step moves to a
\* strictly shorter path, no path is inspected twice, and the call returns.
ThmC19 ==
    /\ [](IsAbsolute(vPath0) /\ vResult = "pending" => path \notin DOMAIN seen)
    /\ [][(IsAbsolute(vPath0) /\ vResult' = "pending") =>
             (IsAbsolute(path') /\ Len(path') < Len(path))]_vars
    /\ (IsAbsolute(vPath0) /\ vResult = "pending")
          ~> (vResult \in {"true", "false"})

\* VerifyScript has returned true on "/a/": it has inspected "/a/" and "/".
WitC19 ==
    /\ vPath0 = <<"/", "a", "/">>
    /\ vResult = "true"
    /\ DOMAIN seen = {vPath0, Root}

----------------------------------------------------------------------------
\* C20.  The forked child never returns into the host's code: every path of
\* the child branch of ExecuteScript ends in a successful execl or in exit,
\* so the child never calls SetResult and never returns from ExecuteScript;
\* and setgid and setuid are called in the child only, so the identity of the
\* invoking process is after MechanismInvoke what it was before.
ThmC20 ==
    /\ [](child.cpc \in {"none", "creds", "cloexec", "script", "zombie"})
    /\ [](outcome.by = "child_exit" => outcome.code \in {EX_NOPERM, EX_OSERR})
    /\ [][(/\ child.cpc \in {"creds", "cloexec", "script"}
            /\ child'.cpc \in {"cloexec", "script", "zombie"}) =>
              UNCHANGED <<pc, result, reported, invokeRet, cred, mech>>]_vars
    /\ [][cred' = cred]_vars

\* The child dropped its credentials to uid 501, execl failed and the child
\* exited; MechanismInvoke has returned and the host is still root.
WitC20 ==
    /\ Returned
    /\ outcome = [by |-> "child_exit", code |-> EX_OSERR]
    /\ uid = 501
    /\ "setuid" \in Events
    /\ reported = <<Allow>>
    /\ cred = [uid |-> 0, gid |-> 0]

----------------------------------------------------------------------------
SetResultEvents == {"SetResult", "SetResult:err"}

\* C21.  The status MechanismInvoke returns is numerically the result it
\* computed, not the outcome of the operation: it is errAuthorizationSuccess
\* (0) exactly when the result is Allow and is not 0 when the result is Deny;
\* a failure of SetResult changes neither the result nor the returned status,
\* and SetResult is not called again.
ThmC21 ==
    /\ [](Returned =>
             /\ reported = <<result>>
             /\ invokeRet = result
             /\ invokeRet = errAuthorizationSuccess <=> result = Allow
             /\ result = Deny => invokeRet # 0
             /\ Cardinality({i \in 1..Len(sys) : sys[i] \in SetResultEvents}) = 1)
    /\ [][(pc = "report" /\ pc' = "idle") =>
             /\ result' = result
             /\ invokeRet' = result
             /\ reported' = Append(reported, result)]_vars

\* The script exited with 77, SetResult failed, and MechanismInvoke has
\* returned 1, the value of Deny.
WitC21 ==
    /\ Returned
    /\ ScriptExitedWith(EX_NOPERM)
    /\ sys[Len(sys)] = "SetResult:err"
    /\ reported = <<Deny>>
    /\ invokeRet = kAuthorizationResultDeny

====
